---- MODULE Spec2Model ----
(***************************************************************************)
(* A model of homework.py: the homework-status bot.  main() checks the     *)
(* three tokens, greets the chat, then polls the review API forever:       *)
(* get_api_answer -> check_response -> parse_status -> send_message, with  *)
(* the cursor (timestamp) advanced on success, a deduplicated error report *)
(* on failure, and a sleep of RETRY_PERIOD after every iteration.          *)
(*                                                                         *)
(* TLC's strings are ASCII, so every Russian literal of the source is      *)
(* written here in Latin transliteration, character for character in       *)
(* punctuation and in the interpolated parts; the original is quoted in a  *)
(* comment beside each.                                                    *)
(***************************************************************************)
EXTENDS Integers, Sequences, FiniteSets, TLC

VARIABLES
    env,                 \* os.getenv of the three token names (module globals, lines 22-24)
    verdicts,            \* the module-level dict HOMEWORK_VERDICTS
    pc,                  \* main()'s position
    timestamp,           \* main's local: the poll cursor
    last_error_message,  \* main's local: text of the last reported failure, or None
    response,            \* main's local: what get_api_answer returned
    homeworks,           \* main's local: what check_response returned
    message,             \* main's local: the text about to be sent
    exc,                 \* the exception in flight, if any
    pending,             \* a KeyboardInterrupt is propagating through the finally clause
    http,                \* what the remote end did in this iteration
    sent,                \* every bot.send_message attempt of the current iteration (or of startup)
    log,                 \* the log records of the current iteration (or of startup)
    naps,                \* the durations of the completed time.sleep calls
    iter,                \* how many iterations have started their fetch
    cursor_before,       \* the cursor when the current iteration started
    lem_before,          \* last_error_message when the current iteration started
    outcome,             \* how the current iteration's body ended, once it has
    hist                 \* the summaries of the last two finished iterations

vars == <<env, verdicts, pc, timestamp, last_error_message, response, homeworks,
          message, exc, pending, http, sent, log, naps, iter, cursor_before,
          lem_before, outcome, hist>>

(***************************************************************************)
(* Bounds of the model.                                                    *)
(***************************************************************************)
\* The loop is `while True`; the model stops starting iterations after this many.
MaxIter == 4

(***************************************************************************)
(* Program constants (homework.py lines 27-39).                            *)
(***************************************************************************)
RETRY_PERIOD == 600
ENDPOINT == "https://practicum.yandex.ru/api/user_api/homework_statuses/"
TEXT == "Hi, practicum"
\* HTTPStatus.OK
HTTP_OK == 200

\* HOMEWORK_VERDICTS with the sentences of approved and rejected exchanged.
HOMEWORK_VERDICTS_exchanged ==
    [s \in {"approved", "reviewing", "rejected"} |->
        CASE s = "approved"  -> "Rabota proverena: u revyuera est zamechaniya."
          [] s = "reviewing" -> "Rabota vzyata na proverku revyuerom."
          [] s = "rejected"  -> "Rabota proverena: revyueru vsyo ponravilos. Ura!"]

\* "Работа проверена: ревьюеру всё понравилось. Ура!" etc.
HOMEWORK_VERDICTS ==
    [s \in {"approved", "reviewing", "rejected"} |->
        CASE s = "approved"  -> "Rabota proverena: revyueru vsyo ponravilos. Ura!"
          [] s = "reviewing" -> "Rabota vzyata na proverku revyuerom."
          [] s = "rejected"  -> "Rabota proverena: u revyuera est zamechaniya."]

\* The tuple `tokens` of check_tokens, in its order.
TokenNames == <<"PRACTICUM_TOKEN", "TELEGRAM_TOKEN", "TELEGRAM_CHAT_ID">>

(***************************************************************************)
(* Python values.  Every value carries its type, so that values of         *)
(* different Python types can be compared.                                 *)
(***************************************************************************)
PyNone == [type |-> "NoneType", val |-> 0, text |-> ""]
PyInt(n) == [type |-> "int", val |-> n, text |-> ""]
PyStr(s) == [type |-> "str", val |-> 0, text |-> s]
\* A local that has not been assigned yet.
PyUnbound == [type |-> "unbound", val |-> 0, text |-> ""]

\* repr() of a value, as the f-string of line 83 prints the params dict.
PyRepr(v) ==
    CASE v.type = "int" -> ToString(v.val)
      [] v.type = "str" -> "'" \o v.text \o "'"
      [] OTHER -> "None"

\* An exception in flight, and none.
NoExc == [raised |-> FALSE, etype |-> "", msg |-> "", by |-> ""]
Raise(t, m, f) == [raised |-> TRUE, etype |-> t, msg |-> m, by |-> f]


\* One log record.
Rec(level, text) == [level |-> level, text |-> text]

\* Python truthiness of a token value (line 53: `not globals()[name]`).
TokenSet(v) == v.type = "str" /\ v.text # ""

\* ", ".join(names)
RECURSIVE Join(_)
Join(names) ==
    IF names = <<>> THEN ""
    ELSE IF Len(names) = 1 THEN names[1]
    ELSE names[1] \o ", " \o Join(Tail(names))

(***************************************************************************)
(* The remote end.  A homework record of the payload, the JSON value under *)
(* "homeworks", the payload itself, and what one HTTP exchange can yield.  *)
(***************************************************************************)
Homework(name, status) ==
    [type |-> "dict", keys |-> {"homework_name", "status"},
     homework_name |-> name, status |-> status]
\* A record without one of its keys, and a JSON null in the list.
HomeworkNoName(status) ==
    [type |-> "dict", keys |-> {"status"}, homework_name |-> "", status |-> status]
HomeworkNoStatus(name) ==
    [type |-> "dict", keys |-> {"homework_name"}, homework_name |-> name, status |-> ""]
HomeworkNull ==
    [type |-> "NoneType", keys |-> {}, homework_name |-> "", status |-> ""]

HomeworkItems ==
    { Homework("hw1", "approved"), Homework("hw1", "reviewing"),
      Homework("hw2", "rejected"), Homework("hw2", "weird"),
      HomeworkNoName("approved"), HomeworkNoStatus("hw1"), HomeworkNull }

\* The lists the remote end may put under "homeworks".
HomeworkLists ==
    {<<>>} \cup { <<h>> : h \in HomeworkItems }
           \cup { <<Homework("hw1", "approved"), Homework("hw2", "weird")>>,
                  <<Homework("hw2", "weird"), Homework("hw1", "approved")>> }

JList(items) == [type |-> "list", items |-> items]
\* A JSON string where the list is expected.
JNotList == [type |-> "str", items |-> <<>>]

HomeworksValues == { JList(l) : l \in HomeworkLists } \cup {JNotList}
\* What the remote end may put under "current_date": a time, or null.
DateValues == { PyInt(1000), PyNone }

\* A decoded JSON object with the given keys.
Dict(keys, hws, date) ==
    [type |-> "dict", keys |-> keys, homeworks |-> hws, current_date |-> date]
\* Decoded JSON that is no object: `[]` and `null`.
JsonEmptyList == [type |-> "list", keys |-> {}, homeworks |-> JNotList, current_date |-> PyNone]
JsonNull == [type |-> "NoneType", keys |-> {}, homeworks |-> JNotList, current_date |-> PyNone]
\* The requests.Response object itself (status 200, so it is truthy).
ResponseObject == [type |-> "Response", keys |-> {}, homeworks |-> JNotList, current_date |-> PyNone]
\* main's `response` before its first assignment.
Unbound == [type |-> "unbound", keys |-> {}, homeworks |-> JNotList, current_date |-> PyNone]

Payloads ==
    { Dict({"homeworks", "current_date"}, h, d) : h \in HomeworksValues, d \in DateValues }
    \cup { Dict({"homeworks"}, h, PyNone) :
              h \in {JList(<<>>), JList(<<Homework("hw1", "approved")>>), JNotList} }
    \cup { Dict({"current_date"}, JNotList, d) : d \in {PyInt(1000)} }
    \cup { Dict({}, JNotList, PyNone), JsonEmptyList, JsonNull }

StatusCodes == {200, 201, 404, 503}

\* One HTTP exchange: requests.get raised, or answered with a status and a body
\* that response.json() can decode (to `json`) or not.
HttpOutcomes ==
    { [kind |-> "exception", status |-> 0, decodes |-> FALSE, json |-> JsonNull] }
    \cup { [kind |-> "response", status |-> c, decodes |-> FALSE, json |-> JsonNull] :
              c \in StatusCodes }
    \cup { [kind |-> "response", status |-> HTTP_OK, decodes |-> TRUE, json |-> p] :
              p \in Payloads }
NoHttp == [kind |-> "none", status |-> 0, decodes |-> FALSE, json |-> JsonNull]

\* bool(value) for what get_api_answer can return (line 159).
Truthy(v) ==
    CASE v.type = "dict" -> v.keys # {}
      [] v.type = "Response" -> TRUE
      [] OTHER -> FALSE

(***************************************************************************)
(* The functions of homework.py.  Each returns what the Python function    *)
(* returns or raises, and the log records it writes.                       *)
(***************************************************************************)
Result(e, v, l) == [exc |-> e, value |-> v, log |-> l]

\* MissingTokens with the slip of stopping at the first missing name.
MissingTokensFirst(e) ==
    LET all == SelectSeq(TokenNames, LAMBDA name : ~TokenSet(e[name]))
    IN  IF all = <<>> THEN <<>> ELSE <<all[1]>>

\* check_tokens (lines 50-61), on the module globals.
\* "Отсутствует обязательная переменная окружения: {missing_tokens_message}."
MissingTokens(e) == SelectSeq(TokenNames, LAMBDA name : ~TokenSet(e[name]))
CheckTokensMessage(e) ==
    "Otsutstvuet obyazatelnaya peremennaya okruzheniya: " \o Join(MissingTokens(e)) \o "."
check_tokens(e) ==
    IF MissingTokens(e) # <<>>
    THEN Result(Raise("MissingTokensError", CheckTokensMessage(e), "check_tokens"),
                PyNone, <<Rec("CRITICAL", CheckTokensMessage(e))>>)
    ELSE Result(NoExc, PyNone, <<>>)

\* send_message (lines 64-71): the log it writes when bot.send_message returns
\* (delivered) or raises (not delivered).  It raises nothing itself.
\* "Начало отправки сообщения." / 'Бот отправил сообщение "%s".' /
\* "Ошибка отправки сообщения: %s."
send_message(text, delivered) ==
    Result(NoExc, PyNone,
           <<Rec("INFO", "Nachalo otpravki soobscheniya.")>> \o
           (IF delivered
            THEN <<Rec("DEBUG", "Bot otpravil soobschenie \"" \o text \o "\".")>>
            ELSE <<Rec("ERROR", "Oshibka otpravki soobscheniya: delivery failed.")>>))

\* One bot.send_message attempt; `kind` names the call site.
Attempt(text, delivered, kind) == [text |-> text, delivered |-> delivered, kind |-> kind]

\* The params dict of line 76 as `%s` and the f-string of line 83 print it.
Params(ts) == "{'from_date': " \o PyRepr(ts) \o "}"

\* get_api_answer as it would be if line 86 accepted every success status:
\* `if not 200 <= response.status_code < 300`.
get_api_answer_2xx(ts, o) ==
    LET start == Rec("INFO", "Proizvodim zapros k " \o ENDPOINT \o " s parametrami "
                             \o Params(ts) \o ".")
        good == Rec("INFO", "Zapros k " \o ENDPOINT \o " s parametrami "
                            \o Params(ts) \o " uspeshen!")
    IN  IF o.kind = "exception"
        THEN Result(Raise("APIRequestError",
                          "Oshibka zaprosa k " \o ENDPOINT \o " c params=" \o Params(ts) \o ".",
                          "get_api_answer"),
                    Unbound, <<start>>)
        ELSE IF o.status < 200 \/ o.status >= 300
        THEN Result(Raise("APIRequestError", "Endpoint - " \o ENDPOINT \o " nedostupen.",
                          "get_api_answer"),
                    Unbound,
                    <<start, Rec("ERROR", "Endpoint " \o ENDPOINT \o " nedostupen, status kod: "
                                          \o ToString(o.status))>>)
        ELSE IF ~o.decodes
        THEN Result(NoExc, ResponseObject, <<start, good, Rec("ERROR", "--- Logging error ---")>>)
        ELSE Result(NoExc, o.json, <<start, good>>)

\* get_api_answer (lines 74-100) when the remote end does `o`.
\* "Производим запрос к %s с параметрами %s."
\* "Ошибка запроса к {ENDPOINT} c params={params}."
\* "Эндпоинт %s недоступен, статус код: %s" / "Эндпоинт - {ENDPOINT} недоступен."
\* "Запрос к %s с параметрами %s успешен!"
get_api_answer(ts, o) ==
    LET start == Rec("INFO", "Proizvodim zapros k " \o ENDPOINT \o " s parametrami "
                             \o Params(ts) \o ".")
        good == Rec("INFO", "Zapros k " \o ENDPOINT \o " s parametrami "
                            \o Params(ts) \o " uspeshen!")
    IN  IF o.kind = "exception"
        THEN Result(Raise("APIRequestError",
                          "Oshibka zaprosa k " \o ENDPOINT \o " c params=" \o Params(ts) \o ".",
                          "get_api_answer"),
                    Unbound, <<start>>)
        ELSE IF o.status # HTTP_OK
        THEN Result(Raise("APIRequestError", "Endpoint - " \o ENDPOINT \o " nedostupen.",
                          "get_api_answer"),
                    Unbound,
                    <<start, Rec("ERROR", "Endpoint " \o ENDPOINT \o " nedostupen, status kod: "
                                          \o ToString(o.status))>>)
        ELSE IF ~o.decodes
        \* json.JSONDecodeError is caught and logged (line 98 passes an argument
        \* its format string has no place for, so logging reports its own error);
        \* `response` is still the Response object and line 100 returns it.
        \* (What response.json() raises is a json.JSONDecodeError in a standard
        \* install of requests, which is the case modelled.)
        THEN Result(NoExc, ResponseObject, <<start, good, Rec("ERROR", "--- Logging error ---")>>)
        ELSE Result(NoExc, o.json, <<start, good>>)

\* check_response with the last two checks in the other order: the type of
\* homeworks is looked at before the presence of current_date.
check_response_reordered(r) ==
    LET start == Rec("INFO", "Proverka otveta nachalas.")
    IN  IF r.type # "dict"
        THEN Result(Raise("TypeError", "Otvet ne yavlyaetsya slovarem.", "check_response"),
                    JNotList, <<start>>)
        ELSE IF "homeworks" \notin r.keys
        THEN Result(Raise("InvalidAPIResponseError",
                          "Otsutstvuet ozhidaemyi klyuch \"homeworks\" v otvete API.",
                          "check_response"),
                    JNotList, <<start>>)
        ELSE IF r.homeworks.type # "list"
        THEN Result(Raise("TypeError", "Znachenie klyucha homeworks ne yavlyaetsya spiskom.",
                          "check_response"),
                    JNotList, <<start>>)
        ELSE IF "current_date" \notin r.keys
        THEN Result(Raise("InvalidAPIResponseError",
                          "Otsutstvuet ozhidaemyi klyuch \"current_date\" v otvete API.",
                          "check_response"),
                    JNotList, <<start>>)
        ELSE IF r.homeworks.items = <<>>
        THEN Result(NoExc, r.homeworks, <<start, Rec("INFO", "Spisok domashnih rabot pust.")>>)
        ELSE Result(NoExc, r.homeworks, <<start>>)

\* check_response (lines 103-121).
\* "Проверка ответа началась." / "Ответ не является словарем."
\* 'Отсутствует ожидаемый ключ "homeworks" в ответе API.'
\* 'Отсутствует ожидаемый ключ "current_date" в ответе API.'
\* "Значение ключа homeworks не является списком." / "Список домашних работ пуст."
check_response(r) ==
    LET start == Rec("INFO", "Proverka otveta nachalas.")
    IN  IF r.type # "dict"
        THEN Result(Raise("TypeError", "Otvet ne yavlyaetsya slovarem.", "check_response"),
                    JNotList, <<start>>)
        ELSE IF "homeworks" \notin r.keys
        THEN Result(Raise("InvalidAPIResponseError",
                          "Otsutstvuet ozhidaemyi klyuch \"homeworks\" v otvete API.",
                          "check_response"),
                    JNotList, <<start>>)
        ELSE IF "current_date" \notin r.keys
        THEN Result(Raise("InvalidAPIResponseError",
                          "Otsutstvuet ozhidaemyi klyuch \"current_date\" v otvete API.",
                          "check_response"),
                    JNotList, <<start>>)
        ELSE IF r.homeworks.type # "list"
        THEN Result(Raise("TypeError", "Znachenie klyucha homeworks ne yavlyaetsya spiskom.",
                          "check_response"),
                    JNotList, <<start>>)
        ELSE IF r.homeworks.items = <<>>
        THEN Result(NoExc, r.homeworks, <<start, Rec("INFO", "Spisok domashnih rabot pust.")>>)
        ELSE Result(NoExc, r.homeworks, <<start>>)

\* parse_status with a fallback for a status it does not know: the status
\* itself stands in for the verdict.
parse_status_fallback(h, v) ==
    IF h.type # "dict"
    THEN Result(Raise("TypeError", "argument of type 'NoneType' is not iterable",
                      "parse_status"), "", <<>>)
    ELSE IF "homework_name" \notin h.keys \/ "status" \notin h.keys
    THEN Result(Raise("InvalidAPIResponseError",
                      "Otsutstvuyut klyuchi homework_name ili status v otvete API",
                      "parse_status"),
                "",
                <<Rec("ERROR", "Otsutstvuyut klyuchi homework_name ili status v otvete API")>>)
    ELSE Result(NoExc,
                "Izmenilsya status proverki raboty \"" \o h.homework_name \o "\". "
                    \o (IF h.status \in DOMAIN v THEN v[h.status] ELSE h.status),
                <<>>)

\* parse_status (lines 124-141), reading the verdict dict `v`.
\* "Отсутствуют ключи homework_name или status в ответе API"
\* "Неизвестный статус домашней работы: {homework_status}"
\* 'Изменился статус проверки работы "{homework_name}". {verdict}'
parse_status(h, v) ==
    IF h.type # "dict"
    \* `"homework_name" not in None`
    THEN Result(Raise("TypeError", "argument of type 'NoneType' is not iterable",
                      "parse_status"), "", <<>>)
    ELSE IF "homework_name" \notin h.keys \/ "status" \notin h.keys
    THEN Result(Raise("InvalidAPIResponseError",
                      "Otsutstvuyut klyuchi homework_name ili status v otvete API",
                      "parse_status"),
                "",
                <<Rec("ERROR", "Otsutstvuyut klyuchi homework_name ili status v otvete API")>>)
    ELSE IF h.status \notin DOMAIN v
    THEN Result(Raise("UnknownHomeworkStatusError",
                      "Neizvestnyi status domashnei raboty: " \o h.status,
                      "parse_status"),
                "",
                <<Rec("ERROR", "Neizvestnyi status domashnei raboty: " \o h.status)>>)
    ELSE Result(NoExc,
                "Izmenilsya status proverki raboty \"" \o h.homework_name \o "\". "
                    \o v[h.status],
                <<>>)

(***************************************************************************)
(* main (lines 144-178), one action per statement that calls out.          *)
(***************************************************************************)
\* What os.getenv can give for one name: nothing, an empty string, a value.
TokenValues == { PyNone, PyStr(""), PyStr("secret") }
\* int(time.time()) at startup.
StartTimes == { 500 }

StartupPcs == { "check_tokens", "setup", "greet", "enter" }
BodyPcs == { "fetch", "check", "parse", "notify", "advance", "handle", "report" }

\* The attempts of one kind among the bot.send_message attempts `s`.
OfKind(s, kind) == SelectSeq(s, LAMBDA a : a.kind = kind)

\* The summary kept of a finished iteration: how it ended, its diagnostic text
\* if it failed, how many error notifications it attempted, and
\* last_error_message as it was when the iteration started.
Summary == [outcome |-> outcome,
            diag |-> IF outcome = "failed" THEN message ELSE "",
            errors |-> Len(OfKind(sent, "error")),
            lem |-> lem_before]

\* The summaries kept: those of the last two finished iterations.  With the
\* iteration under way that makes three, the longest run of iterations that a
\* property of this module speaks of.
Recent(h) == IF Len(h) > 2 THEN Tail(h) ELSE h

Init ==
    /\ env \in [ {TokenNames[i] : i \in 1..Len(TokenNames)} -> TokenValues ]
    /\ verdicts = HOMEWORK_VERDICTS
    /\ pc = "check_tokens"
    /\ timestamp = PyUnbound
    /\ last_error_message = PyUnbound
    /\ response = Unbound
    /\ homeworks = JNotList
    /\ message = ""
    /\ exc = NoExc
    /\ pending = FALSE
    /\ http = NoHttp
    /\ sent = <<>>
    /\ log = <<>>
    /\ naps = <<>>
    /\ iter = 0
    /\ cursor_before = PyUnbound
    /\ lem_before = PyUnbound
    /\ outcome = "none"
    /\ hist = <<>>

\* Line 146: check_tokens(); MissingTokensError is caught nowhere and ends main.
CheckTokens ==
    /\ pc = "check_tokens"
    /\ LET r == check_tokens(env)
       IN  /\ log' = log \o r.log
           /\ exc' = r.exc
           /\ pc' = IF r.exc.raised THEN "fatal" ELSE "setup"
    /\ UNCHANGED <<env, verdicts, timestamp, last_error_message, response, homeworks,
                   message, pending, http, sent, naps, iter, cursor_before,
                   lem_before, outcome, hist>>

\* Lines 148-149: the bot object and the initial cursor.
Setup ==
    /\ pc = "setup"
    /\ \E now \in StartTimes : timestamp' = PyInt(now)
    /\ pc' = "greet"
    /\ UNCHANGED <<env, verdicts, last_error_message, response, homeworks, message,
                   exc, pending, http, sent, log, naps, iter, cursor_before,
                   lem_before, outcome, hist>>

\* Line 151: send_message(bot, TEXT).
Greet ==
    /\ pc = "greet"
    /\ \E delivered \in BOOLEAN :
          /\ sent' = Append(sent, Attempt(TEXT, delivered, "greeting"))
          /\ log' = log \o send_message(TEXT, delivered).log
    /\ pc' = "enter"
    /\ UNCHANGED <<env, verdicts, timestamp, last_error_message, response, homeworks,
                   message, exc, pending, http, naps, iter, cursor_before,
                   lem_before, outcome, hist>>

\* Lines 153-157: last_error_message = None, then into the try and the loop.
EnterLoop ==
    /\ pc = "enter"
    /\ last_error_message' = PyNone
    /\ pc' = "fetch"
    /\ sent' = <<>>
    /\ log' = <<>>
    /\ cursor_before' = timestamp
    /\ lem_before' = PyNone
    /\ UNCHANGED <<env, verdicts, timestamp, response, homeworks, message, exc,
                   pending, http, naps, iter, outcome, hist>>

\* Fetch as it would be if line 151 stood inside the loop: every iteration
\* greets before it polls.
FetchGreeting ==
    /\ pc = "fetch"
    /\ iter < MaxIter
    /\ \E o \in HttpOutcomes :
          LET r == get_api_answer(timestamp, o)
          IN  /\ http' = o
              /\ exc' = r.exc
              /\ response' = IF r.exc.raised THEN response ELSE r.value
              /\ log' = log \o r.log \o
                        (IF ~r.exc.raised /\ ~Truthy(r.value)
                         THEN <<Rec("ERROR", "Oshibka zaprosa k endpointu: %s.")>>
                         ELSE <<>>)
              /\ pc' = IF r.exc.raised THEN "handle" ELSE "check"
    /\ sent' = Append(sent, Attempt(TEXT, TRUE, "greeting"))
    /\ iter' = iter + 1
    /\ UNCHANGED <<env, verdicts, timestamp, last_error_message, homeworks, message,
                   pending, naps, cursor_before, lem_before, outcome, hist>>

\* Lines 158-160: response = get_api_answer(timestamp), and the log line for a
\* falsy answer.  "Ошибка запроса к эндпоинту: %s."
Fetch ==
    /\ pc = "fetch"
    /\ iter < MaxIter
    /\ \E o \in HttpOutcomes :
          LET r == get_api_answer(timestamp, o)
          IN  /\ http' = o
              /\ exc' = r.exc
              /\ response' = IF r.exc.raised THEN response ELSE r.value
              /\ log' = log \o r.log \o
                        (IF ~r.exc.raised /\ ~Truthy(r.value)
                         THEN <<Rec("ERROR", "Oshibka zaprosa k endpointu: %s.")>>
                         ELSE <<>>)
              /\ pc' = IF r.exc.raised THEN "handle" ELSE "check"
    /\ iter' = iter + 1
    /\ UNCHANGED <<env, verdicts, timestamp, last_error_message, homeworks, message,
                   pending, sent, naps, cursor_before, lem_before, outcome, hist>>

\* Check as it would be if line 169 caught the bot's own exception classes
\* only: the TypeError of check_response leaves the loop and ends main.
CheckEscaping ==
    /\ pc = "check"
    /\ LET r == check_response(response)
       IN  /\ exc' = r.exc
           /\ homeworks' = IF r.exc.raised THEN homeworks ELSE r.value
           /\ log' = log \o r.log \o
                     (IF ~r.exc.raised /\ r.value.items = <<>>
                      THEN <<Rec("DEBUG", "Otsutstvie novyh statusov v otvete API.")>>
                      ELSE <<>>)
           /\ pc' = IF r.exc.raised
                    THEN (IF r.exc.etype = "TypeError" THEN "fatal" ELSE "handle")
                    ELSE IF r.value.items # <<>> THEN "parse" ELSE "advance"
    /\ UNCHANGED <<env, verdicts, timestamp, last_error_message, response, message,
                   pending, http, sent, naps, iter, cursor_before, lem_before,
                   outcome, hist>>

\* Lines 162-163 and 166-167: homeworks = check_response(response), and the
\* branch on it.  "Отсутствие новых статусов в ответе API."
Check ==
    /\ pc = "check"
    /\ LET r == check_response(response)
       IN  /\ exc' = r.exc
           /\ homeworks' = IF r.exc.raised THEN homeworks ELSE r.value
           /\ log' = log \o r.log \o
                     (IF ~r.exc.raised /\ r.value.items = <<>>
                      THEN <<Rec("DEBUG", "Otsutstvie novyh statusov v otvete API.")>>
                      ELSE <<>>)
           /\ pc' = IF r.exc.raised THEN "handle"
                    ELSE IF r.value.items # <<>> THEN "parse" ELSE "advance"
    /\ UNCHANGED <<env, verdicts, timestamp, last_error_message, response, message,
                   pending, http, sent, naps, iter, cursor_before, lem_before,
                   outcome, hist>>

\* Parse with the slip of taking the last record of the list: homeworks[-1].
ParseLast ==
    /\ pc = "parse"
    /\ LET r == parse_status(homeworks.items[Len(homeworks.items)], verdicts)
       IN  /\ exc' = r.exc
           /\ message' = IF r.exc.raised THEN message ELSE r.value
           /\ log' = log \o r.log
           /\ pc' = IF r.exc.raised THEN "handle" ELSE "notify"
    /\ UNCHANGED <<env, verdicts, timestamp, last_error_message, response, homeworks,
                   pending, http, sent, naps, iter, cursor_before, lem_before,
                   outcome, hist>>

\* Line 164: message = parse_status(homeworks[0]).
Parse ==
    /\ pc = "parse"
    /\ LET r == parse_status(homeworks.items[1], verdicts)
       IN  /\ exc' = r.exc
           /\ message' = IF r.exc.raised THEN message ELSE r.value
           /\ log' = log \o r.log
           /\ pc' = IF r.exc.raised THEN "handle" ELSE "notify"
    /\ UNCHANGED <<env, verdicts, timestamp, last_error_message, response, homeworks,
                   pending, http, sent, naps, iter, cursor_before, lem_before,
                   outcome, hist>>

\* Notify as it would be if send_message had no try/except: a delivery
\* failure is raised into the loop body.
NotifyRaising ==
    /\ pc = "notify"
    /\ \E delivered \in BOOLEAN :
          /\ sent' = Append(sent, Attempt(message, delivered, "status"))
          /\ log' = Append(log, Rec("INFO", "Nachalo otpravki soobscheniya."))
          /\ exc' = IF delivered THEN exc
                    ELSE Raise("ApiException", "delivery failed", "send_message")
          /\ pc' = IF delivered THEN "advance" ELSE "handle"
    /\ UNCHANGED <<env, verdicts, timestamp, last_error_message, response, homeworks,
                   message, pending, http, naps, iter, cursor_before,
                   lem_before, outcome, hist>>

\* Line 165: send_message(bot, message).
Notify ==
    /\ pc = "notify"
    /\ \E delivered \in BOOLEAN :
          /\ sent' = Append(sent, Attempt(message, delivered, "status"))
          /\ log' = log \o send_message(message, delivered).log
    /\ pc' = "advance"
    /\ UNCHANGED <<env, verdicts, timestamp, last_error_message, response, homeworks,
                   message, exc, pending, http, naps, iter, cursor_before,
                   lem_before, outcome, hist>>

\* Advance with a "fix" the source does not make: a successful iteration
\* clears last_error_message.
AdvanceClears ==
    /\ pc = "advance"
    /\ timestamp' = IF "current_date" \in response.keys
                    THEN response.current_date ELSE timestamp
    /\ last_error_message' = PyNone
    /\ outcome' = "ok"
    /\ pc' = "sleep"
    /\ UNCHANGED <<env, verdicts, response, homeworks, message,
                   exc, pending, http, sent, log, naps, iter, cursor_before,
                   lem_before, hist>>

\* Advance with a type check the source does not make, put after the
\* notification: a current_date that is no integer raises in line 168.
AdvanceChecking ==
    /\ pc = "advance"
    /\ IF "current_date" \in response.keys /\ response.current_date.type # "int"
       THEN /\ exc' = Raise("TypeError", "current_date is not an integer", "main")
            /\ pc' = "handle"
            /\ UNCHANGED <<timestamp, outcome>>
       ELSE /\ timestamp' = IF "current_date" \in response.keys
                            THEN response.current_date ELSE timestamp
            /\ outcome' = "ok"
            /\ pc' = "sleep"
            /\ UNCHANGED exc
    /\ UNCHANGED <<env, verdicts, last_error_message, response, homeworks, message,
                   pending, http, sent, log, naps, iter, cursor_before,
                   lem_before, hist>>

\* Line 168: timestamp = response.get("current_date", timestamp); the try
\* block is over and the finally clause is next.
Advance ==
    /\ pc = "advance"
    /\ timestamp' = IF "current_date" \in response.keys
                    THEN response.current_date ELSE timestamp
    /\ outcome' = "ok"
    /\ pc' = "sleep"
    /\ UNCHANGED <<env, verdicts, last_error_message, response, homeworks, message,
                   exc, pending, http, sent, log, naps, iter, cursor_before,
                   lem_before, hist>>

\* Lines 169-172: the handler composes and logs the diagnostic text and
\* compares it with the last one reported.  "Сбой в работе программы: {error}."
Diagnostic(e) == "Sboi v rabote programmy: " \o e.msg \o "."
\* Handle with the slip of moving the cursor in the handler: a failed
\* iteration takes the payload's current_date when it carried one.
HandleAdvancing ==
    /\ pc = "handle"
    /\ message' = Diagnostic(exc)
    /\ log' = Append(log, Rec("ERROR", Diagnostic(exc)))
    /\ timestamp' = IF http.decodes /\ "current_date" \in http.json.keys
                    THEN http.json.current_date ELSE timestamp
    /\ IF last_error_message # PyStr(Diagnostic(exc))
       THEN /\ pc' = "report"
            /\ UNCHANGED <<exc, outcome>>
       ELSE /\ pc' = "sleep"
            /\ exc' = NoExc
            /\ outcome' = "failed"
    /\ UNCHANGED <<env, verdicts, last_error_message, response, homeworks,
                   pending, http, sent, naps, iter, cursor_before, lem_before, hist>>

Handle ==
    /\ pc = "handle"
    /\ message' = Diagnostic(exc)
    /\ log' = Append(log, Rec("ERROR", Diagnostic(exc)))
    /\ IF last_error_message # PyStr(Diagnostic(exc))
       THEN /\ pc' = "report"
            /\ UNCHANGED <<exc, outcome>>
       ELSE /\ pc' = "sleep"
            /\ exc' = NoExc
            /\ outcome' = "failed"
    /\ UNCHANGED <<env, verdicts, timestamp, last_error_message, response, homeworks,
                   pending, http, sent, naps, iter, cursor_before, lem_before, hist>>

\* Report with the slip of not recording what it reported: line 174 missing.
ReportForgets ==
    /\ pc = "report"
    /\ \E delivered \in BOOLEAN :
          /\ sent' = Append(sent, Attempt(message, delivered, "error"))
          /\ log' = log \o send_message(message, delivered).log
    /\ exc' = NoExc
    /\ outcome' = "failed"
    /\ pc' = "sleep"
    /\ UNCHANGED <<env, verdicts, timestamp, last_error_message, response, homeworks,
                   message, pending, http, naps, iter, cursor_before, lem_before, hist>>

\* Report as the spec's rationale has it: the text is recorded only when it
\* was delivered, so that the next failing iteration tries again.
ReportIfDelivered ==
    /\ pc = "report"
    /\ \E delivered \in BOOLEAN :
          /\ sent' = Append(sent, Attempt(message, delivered, "error"))
          /\ log' = log \o send_message(message, delivered).log
          /\ last_error_message' = IF delivered THEN PyStr(message) ELSE last_error_message
    /\ exc' = NoExc
    /\ outcome' = "failed"
    /\ pc' = "sleep"
    /\ UNCHANGED <<env, verdicts, timestamp, response, homeworks, message, pending,
                   http, naps, iter, cursor_before, lem_before, hist>>

\* Lines 173-174: send_message(bot, message); last_error_message = message.
Report ==
    /\ pc = "report"
    /\ \E delivered \in BOOLEAN :
          /\ sent' = Append(sent, Attempt(message, delivered, "error"))
          /\ log' = log \o send_message(message, delivered).log
    /\ last_error_message' = PyStr(message)
    /\ exc' = NoExc
    /\ outcome' = "failed"
    /\ pc' = "sleep"
    /\ UNCHANGED <<env, verdicts, timestamp, response, homeworks, message, pending,
                   http, naps, iter, cursor_before, lem_before, hist>>

\* Sleep with a backoff the source does not have: twice the period after a
\* failed iteration.
SleepBackoff ==
    /\ pc = "sleep"
    /\ naps' = Append(naps, IF outcome = "failed" THEN 2 * RETRY_PERIOD ELSE RETRY_PERIOD)
    /\ hist' = Recent(Append(hist, Summary))
    /\ IF pending
       THEN /\ pc' = "stopped"
            /\ log' = <<Rec("INFO", "Programma ostanovlena polzovatelem.")>>
            /\ exc' = NoExc
       ELSE /\ pc' = "fetch"
            /\ log' = <<>>
            /\ UNCHANGED exc
    /\ pending' = FALSE
    /\ response' = Unbound
    /\ homeworks' = JNotList
    /\ message' = ""
    /\ http' = NoHttp
    /\ sent' = <<>>
    /\ outcome' = "none"
    /\ cursor_before' = timestamp
    /\ lem_before' = last_error_message
    /\ UNCHANGED <<env, verdicts, timestamp, last_error_message, iter>>

\* Sleep as it would be if the finally clause ended in `continue`: the
\* KeyboardInterrupt it held back is dropped and the loop goes on.
SleepSwallows ==
    /\ pc = "sleep"
    /\ naps' = Append(naps, RETRY_PERIOD)
    /\ hist' = Recent(Append(hist, Summary))
    /\ pc' = "fetch"
    /\ log' = <<>>
    /\ exc' = NoExc
    /\ pending' = FALSE
    /\ response' = Unbound
    /\ homeworks' = JNotList
    /\ message' = ""
    /\ http' = NoHttp
    /\ sent' = <<>>
    /\ outcome' = "none"
    /\ cursor_before' = timestamp
    /\ lem_before' = last_error_message
    /\ UNCHANGED <<env, verdicts, timestamp, last_error_message, iter>>

\* Lines 175-176: time.sleep(RETRY_PERIOD) runs to its end.  Then the next
\* iteration starts, or the KeyboardInterrupt that the finally clause held back
\* reaches line 177.  The locals of the finished iteration are dead (each is
\* assigned again before it is read), so the model clears them here.
\* "Программа остановлена пользователем."
Sleep ==
    /\ pc = "sleep"
    /\ naps' = Append(naps, RETRY_PERIOD)
    /\ hist' = Recent(Append(hist, Summary))
    /\ IF pending
       THEN /\ pc' = "stopped"
            /\ log' = <<Rec("INFO", "Programma ostanovlena polzovatelem.")>>
            /\ exc' = NoExc
       ELSE /\ pc' = "fetch"
            /\ log' = <<>>
            /\ UNCHANGED exc
    /\ pending' = FALSE
    /\ response' = Unbound
    /\ homeworks' = JNotList
    /\ message' = ""
    /\ http' = NoHttp
    /\ sent' = <<>>
    /\ outcome' = "none"
    /\ cursor_before' = timestamp
    /\ lem_before' = last_error_message
    /\ UNCHANGED <<env, verdicts, timestamp, last_error_message, iter>>

\* SIGINT before the try of line 155: KeyboardInterrupt leaves main uncaught.
InterruptStartup ==
    /\ pc \in StartupPcs
    /\ exc' = Raise("KeyboardInterrupt", "", pc)
    /\ pc' = "killed"
    /\ UNCHANGED <<env, verdicts, timestamp, last_error_message, response, homeworks,
                   message, pending, http, sent, log, naps, iter, cursor_before,
                   lem_before, outcome, hist>>

\* InterruptBody as it would be if the signal only set a flag that the loop
\* tests at the top of an iteration: it takes effect before the fetch only.
InterruptBodyAtTop ==
    /\ pc = "fetch"
    /\ ~pending
    /\ pending' = TRUE
    /\ exc' = Raise("KeyboardInterrupt", "", pc)
    /\ outcome' = "aborted"
    /\ pc' = "sleep"
    /\ response' = Unbound
    /\ homeworks' = JNotList
    /\ message' = ""
    /\ http' = NoHttp
    /\ log' = <<>>
    /\ UNCHANGED <<env, verdicts, timestamp, last_error_message, sent, naps, iter,
                   cursor_before, lem_before, hist>>

\* InterruptBody as it would be without the finally clause: the interrupt goes
\* straight to line 177.
InterruptBodyNoSleep ==
    /\ pc \in BodyPcs
    /\ ~pending
    /\ pending' = FALSE
    /\ exc' = NoExc
    /\ outcome' = "aborted"
    /\ pc' = "stopped"
    /\ response' = Unbound
    /\ homeworks' = JNotList
    /\ message' = ""
    /\ http' = NoHttp
    /\ log' = <<Rec("INFO", "Programma ostanovlena polzovatelem.")>>
    /\ UNCHANGED <<env, verdicts, timestamp, last_error_message, sent, naps, iter,
                   cursor_before, lem_before, hist>>

\* SIGINT inside the loop body or the handler: `except Exception` does not
\* catch KeyboardInterrupt (neither does send_message's), the statement at pc
\* is abandoned and the finally clause runs with the interrupt held back.
\* The loop will not run again, so the locals that only it reads are dead and
\* the model clears them.
InterruptBody ==
    /\ pc \in BodyPcs
    /\ ~pending
    /\ pending' = TRUE
    /\ exc' = Raise("KeyboardInterrupt", "", pc)
    /\ outcome' = "aborted"
    /\ pc' = "sleep"
    /\ response' = Unbound
    /\ homeworks' = JNotList
    /\ message' = ""
    /\ http' = NoHttp
    /\ log' = <<>>
    /\ UNCHANGED <<env, verdicts, timestamp, last_error_message, sent, naps, iter,
                   cursor_before, lem_before, hist>>

\* SIGINT during time.sleep: the sleep is cut short and line 177 catches it.
\* The locals of the loop are dead from here on and the model clears them.
InterruptSleep ==
    /\ pc = "sleep"
    /\ pc' = "stopped"
    /\ pending' = FALSE
    /\ exc' = NoExc
    /\ log' = <<Rec("INFO", "Programma ostanovlena polzovatelem.")>>
    /\ response' = Unbound
    /\ homeworks' = JNotList
    /\ message' = ""
    /\ http' = NoHttp
    /\ UNCHANGED <<env, verdicts, timestamp, last_error_message, sent, naps, iter,
                   cursor_before, lem_before, outcome, hist>>

Next ==
    \/ CheckTokens
    \/ Setup
    \/ Greet
    \/ EnterLoop
    \/ Fetch
    \/ Check
    \/ Parse
    \/ Notify
    \/ Advance
    \/ Handle
    \/ Report
    \/ Sleep
    \/ InterruptStartup
    \/ InterruptBody
    \/ InterruptSleep

Spec == Init /\ [][Next]_vars

\* The statements of main proper: the interpreter runs the single thread on,
\* requests.get has a timeout (line 80), bot.send_message returns or raises,
\* and time.sleep ends; a signal may or may not arrive.
Steps ==
    \/ CheckTokens
    \/ Setup
    \/ Greet
    \/ EnterLoop
    \/ Fetch
    \/ Check
    \/ Parse
    \/ Notify
    \/ Advance
    \/ Handle
    \/ Report
    \/ Sleep

\* The program under the scheduling above: a statement that can run does.
FairSpec == Init /\ [][Next]_vars /\ WF_vars(Steps)

(***************************************************************************)
(* Properties.  An iteration's body has finished when pc = "sleep"; its    *)
(* outcome is "ok" (line 168 was reached), "failed" (the handler ran) or   *)
(* "aborted" (a KeyboardInterrupt cut it short).  `http` is what the       *)
(* remote end did in it and cursor_before the cursor it started with.      *)
(***************************************************************************)
\* Whether get_api_answer, check_response and, for a non-empty list,
\* parse_status of the first record all return for the current iteration.
AllSucceed ==
    LET a == get_api_answer(cursor_before, http)
    IN  /\ ~a.exc.raised
        /\ LET c == check_response(a.value)
           IN  /\ ~c.exc.raised
               /\ c.value.items # <<>> =>
                     ~parse_status(c.value.items[1], HOMEWORK_VERDICTS).exc.raised

\* C1: when an iteration's body has finished, the cursor equals the payload's
\* current_date if the fetch, the validation and the translation of the first
\* record all succeeded, and equals the cursor the iteration started with if
\* any of them failed.
C1_CursorAdvancement ==
    (pc = "sleep" /\ outcome \in {"ok", "failed"}) =>
        /\ (outcome = "ok") <=> AllSucceed
        /\ AllSucceed => timestamp = http.json.current_date
        /\ ~AllSucceed => timestamp = cursor_before

\* A payload whose first record has an unknown status and which carries a
\* current_date has failed, and the cursor is where it was.
C1_Witness ==
    /\ pc = "sleep"
    /\ outcome = "failed"
    /\ http.json = Dict({"homeworks", "current_date"},
                        JList(<<Homework("hw2", "weird")>>), PyInt(1000))
    /\ cursor_before = PyInt(500)
    /\ timestamp = PyInt(500)

\* The error notifications attempted so far in the current iteration, and the
\* summary of the iteration before it.
CurErrors == Len(OfKind(sent, "error"))
Prev == hist[Len(hist)]
\* The current iteration has failed, and so did the one before it.
TwoFailures ==
    /\ pc = "sleep"
    /\ outcome = "failed"
    /\ hist # <<>>
    /\ Prev.outcome = "failed"

\* C2 as stated: of two consecutive failing iterations, equal texts give one
\* error notification for the pair (none in the second), different texts give
\* two (one in each).
C2_AsStated ==
    TwoFailures =>
        IF message = Prev.diag
        THEN Prev.errors + CurErrors = 1 /\ CurErrors = 0
        ELSE Prev.errors = 1 /\ CurErrors = 1

\* C2, amended: of two consecutive failing iterations, the second sends no
\* error notification when the texts are equal and exactly one, carrying its
\* text, when they differ; the first sent exactly one unless its text was
\* already last_error_message when it started.
C2_Deduplication ==
    TwoFailures =>
        /\ CurErrors = (IF message = Prev.diag THEN 0 ELSE 1)
        /\ \A i \in 1..Len(sent) : sent[i].kind = "error" /\ sent[i].text = message
        /\ Prev.errors = (IF Prev.lem = PyStr(Prev.diag) THEN 0 ELSE 1)

\* Two consecutive failures with the same text: the first reported it, the
\* second sent nothing.
C2_Witness ==
    /\ TwoFailures
    /\ message = Prev.diag
    /\ Prev.errors = 1
    /\ sent = <<>>

\* Some earlier iteration of the kept ones failed with the current text and
\* every iteration between it and the current one succeeded (at least one did).
FailedBeforeSuccesses ==
    \E i \in 1..(Len(hist) - 1) :
        /\ hist[i].outcome = "failed"
        /\ hist[i].diag = message
        /\ \A j \in (i + 1)..Len(hist) : hist[j].outcome = "ok"
\* The last three iterations, the current one included, failed with m1, m2, m1.
ThreeFailures ==
    /\ TwoFailures
    /\ Len(hist) >= 2
    /\ hist[Len(hist) - 1].outcome = "failed"
    /\ hist[Len(hist) - 1].diag = message
    /\ Prev.diag # message

\* What C3 says of a finished iteration body: success leaves
\* last_error_message alone, failure leaves it equal to the failure's text; a
\* failure whose text failed before, with only successes between, sends nothing.
C3_Scalar ==
    /\ (pc = "sleep" /\ outcome = "ok") => last_error_message = lem_before
    /\ (pc = "sleep" /\ outcome = "failed") =>
          /\ last_error_message = PyStr(message)
          /\ FailedBeforeSuccesses => CurErrors = 0
\* last_error_message changes only where line 153 initialises it and where
\* line 174 records a text that differs from it.
C3_Step ==
    last_error_message' # last_error_message =>
        \/ pc = "enter" /\ last_error_message' = PyNone
        \/ /\ pc = "report"
           /\ PyStr(message) # last_error_message
           /\ last_error_message' = PyStr(message)

\* C3 as stated: the above, and in fail(m1), fail(m2), fail(m1) all three
\* failures send a notification.
C3_AsStated ==
    /\ C3_Scalar
    /\ ThreeFailures =>
          /\ hist[Len(hist) - 1].errors = 1
          /\ Prev.errors = 1
          /\ CurErrors = 1

\* C3, amended: last_error_message changes only in a failing iteration whose
\* text differs from it and a successful iteration leaves it unchanged; in
\* fail(m), successes, fail(m) the second failure sends nothing; in fail(m1),
\* fail(m2), fail(m1) the second and the third failure send a notification,
\* and the first does unless last_error_message was m1 when it started.
C3_LastErrorMessage ==
    /\ [](/\ C3_Scalar
          /\ ThreeFailures =>
                /\ Prev.errors = 1
                /\ CurErrors = 1
                /\ hist[Len(hist) - 1].errors =
                      (IF hist[Len(hist) - 1].lem = PyStr(message) THEN 0 ELSE 1))
    /\ [][C3_Step]_vars

\* fail(m), a success, fail(m): the second failure has sent nothing.
C3_Witness ==
    /\ pc = "sleep"
    /\ outcome = "failed"
    /\ Len(hist) = 2
    /\ hist[1].outcome = "failed" /\ hist[1].diag = message /\ hist[1].errors = 1
    /\ hist[2].outcome = "ok"
    /\ sent = <<>>

\* A configuration value that is absent or empty, and the names of those that
\* are, in the order PRACTICUM_TOKEN, TELEGRAM_TOKEN, TELEGRAM_CHAT_ID.
Absent(name) == env[name] = PyNone \/ env[name] = PyStr("")
AbsentNames ==
    (IF Absent("PRACTICUM_TOKEN") THEN <<"PRACTICUM_TOKEN">> ELSE <<>>) \o
    (IF Absent("TELEGRAM_TOKEN") THEN <<"TELEGRAM_TOKEN">> ELSE <<>>) \o
    (IF Absent("TELEGRAM_CHAT_ID") THEN <<"TELEGRAM_CHAT_ID">> ELSE <<>>)
\* The message that lists exactly those names.
AbsentMessage ==
    "Otsutstvuet obyazatelnaya peremennaya okruzheniya: " \o
    (CASE Len(AbsentNames) = 1 -> AbsentNames[1]
       [] Len(AbsentNames) = 2 -> AbsentNames[1] \o ", " \o AbsentNames[2]
       [] Len(AbsentNames) = 3 -> AbsentNames[1] \o ", " \o AbsentNames[2] \o ", "
                                     \o AbsentNames[3]
       [] OTHER -> "") \o "."

\* Where main is once check_tokens has raised: nothing was sent, fetched,
\* slept or assigned, and the error and the critical log record name exactly
\* the absent values.
C4_Fatal ==
    pc = "fatal" =>
        /\ AbsentNames # <<>>
        /\ exc = Raise("MissingTokensError", AbsentMessage, "check_tokens")
        /\ log = <<Rec("CRITICAL", AbsentMessage)>>
        /\ sent = <<>> /\ iter = 0 /\ naps = <<>> /\ hist = <<>>
        /\ http = NoHttp /\ timestamp = PyUnbound

\* C4: with any of the three values absent or empty, check_tokens raises
\* MissingTokensError listing exactly the absent names and main does nothing
\* more (no greeting, no fetch, no iteration); with all three present it
\* returns; and main never comes back to the check.
C4_ConfigGuard ==
    /\ [](/\ C4_Fatal
          /\ pc \notin {"check_tokens", "fatal", "killed"} => AbsentNames = <<>>
          /\ (pc = "check_tokens" \/ AbsentNames # <<>>) =>
                sent = <<>> /\ iter = 0 /\ naps = <<>>)
    /\ [][/\ pc # "fatal"
          /\ pc' # "check_tokens"
          /\ (pc = "check_tokens" /\ pc' # "killed") =>
                pc' = (IF AbsentNames = <<>> THEN "setup" ELSE "fatal")]_vars

\* Two of the three values are absent and the error lists both.
C4_Witness ==
    /\ pc = "fatal"
    /\ env["PRACTICUM_TOKEN"] = PyStr("secret")
    /\ env["TELEGRAM_TOKEN"] = PyNone
    /\ env["TELEGRAM_CHAT_ID"] = PyStr("")
    /\ exc.msg = "Otsutstvuet obyazatelnaya peremennaya okruzheniya: "
                    \o "TELEGRAM_TOKEN, TELEGRAM_CHAT_ID."

\* The current iteration attempted a status notification that was not delivered.
StatusUndelivered ==
    \E i \in 1..Len(sent) : sent[i].kind = "status" /\ ~sent[i].delivered

\* C5: send_message raises nothing to its caller, whether or not the message
\* was delivered; so an iteration whose status notification could not be
\* delivered still ends as a success: the cursor is the payload's
\* current_date, no error notification was attempted and last_error_message
\* is what it was.
C5_DeliveryFailureContained ==
    /\ []((pc = "sleep" /\ outcome # "aborted" /\ StatusUndelivered) =>
             /\ outcome = "ok"
             /\ timestamp = http.json.current_date
             /\ CurErrors = 0
             /\ last_error_message = lem_before)
    /\ [][Len(sent') > Len(sent) =>
             /\ exc' = IF pc = "report" THEN NoExc ELSE exc
             /\ pc' = (CASE pc = "greet" -> "enter"
                         [] pc = "notify" -> "advance"
                         [] pc = "report" -> "sleep"
                         [] OTHER -> "none")]_vars

\* A status notification was not delivered and the cursor moved from the start
\* time to the payload's current_date.
C5_Witness ==
    /\ pc = "sleep"
    /\ outcome = "ok"
    /\ Len(sent) = 1 /\ sent[1].kind = "status" /\ ~sent[1].delivered
    /\ cursor_before = PyInt(500)
    /\ timestamp = PyInt(1000)
    /\ http.json.current_date = PyInt(1000)

\* The remote end answered 200 with a body that response.json() cannot decode.
UndecodableBody == http.kind = "response" /\ http.status = HTTP_OK /\ ~http.decodes

\* C6: on a success status with an undecodable body get_api_answer raises a
\* decode error to its caller and returns no value: main's `response` is not
\* assigned (in particular not with the Response object), check_response is
\* not reached, and the handler is entered with get_api_answer's exception.
C6_DecodeErrorPropagates ==
    UndecodableBody =>
        /\ response.type # "Response"
        /\ pc # "check"
        /\ pc = "handle" => exc.by = "get_api_answer"

\* check_response has raised for main's `response`, or has returned `homeworks`.
CheckRaised == pc = "handle" /\ exc.by = "check_response"
CheckReturned == pc \in {"parse", "notify", "advance"}

\* C7: check_response stops at the first failing check, in this order: not a
\* mapping (TypeError); no key homeworks (InvalidAPIResponseError naming it);
\* no key current_date (InvalidAPIResponseError naming it), whatever homeworks
\* is; homeworks not a list (TypeError); otherwise it returns the list under
\* homeworks as it is, the empty list included.
C7_CheckResponseOrder ==
    /\ CheckRaised =>
          CASE response.type # "dict" ->
                  /\ exc.etype = "TypeError"
                  /\ exc.msg = "Otvet ne yavlyaetsya slovarem."
            [] response.type = "dict" /\ "homeworks" \notin response.keys ->
                  /\ exc.etype = "InvalidAPIResponseError"
                  /\ exc.msg = "Otsutstvuet ozhidaemyi klyuch \"homeworks\" v otvete API."
            [] response.type = "dict" /\ "homeworks" \in response.keys
                  /\ "current_date" \notin response.keys ->
                  /\ exc.etype = "InvalidAPIResponseError"
                  /\ exc.msg = "Otsutstvuet ozhidaemyi klyuch \"current_date\" v otvete API."
            [] response.type = "dict" /\ {"homeworks", "current_date"} \subseteq response.keys
                  /\ response.homeworks.type # "list" ->
                  /\ exc.etype = "TypeError"
                  /\ exc.msg = "Znachenie klyucha homeworks ne yavlyaetsya spiskom."
            [] OTHER -> FALSE
    /\ CheckReturned =>
          /\ response.type = "dict"
          /\ {"homeworks", "current_date"} \subseteq response.keys
          /\ response.homeworks.type = "list"
          /\ homeworks = response.homeworks
          /\ (homeworks.items = <<>>) <=> (pc = "advance" /\ sent = <<>>)

\* A mapping with a homeworks that is no list and without current_date has
\* failed on the missing key.
C7_Witness ==
    /\ CheckRaised
    /\ response = Dict({"homeworks"}, JNotList, PyNone)
    /\ exc.etype = "InvalidAPIResponseError"
    /\ exc.msg = "Otsutstvuet ozhidaemyi klyuch \"current_date\" v otvete API."

\* parse_status has raised for the first record of `homeworks`, or has
\* returned `message`.
ParseRaised == pc = "handle" /\ exc.by = "parse_status"
ParseReturned == pc = "notify"
FirstRecord == homeworks.items[1]
KnownStatuses == {"approved", "reviewing", "rejected"}

\* C8: for a record (a mapping), parse_status raises InvalidAPIResponseError
\* if homework_name or status is missing; raises UnknownHomeworkStatusError
\* carrying the code if both are there and the status is none of approved,
\* reviewing, rejected; and otherwise returns a text fixed by homework_name
\* and status alone.  It never returns for a record of the first two kinds,
\* and the verdict map stays as defined.
C8_ParseStatus ==
    /\ verdicts = HOMEWORK_VERDICTS
    /\ DOMAIN verdicts = KnownStatuses
    /\ (ParseRaised /\ FirstRecord.type = "dict") =>
          IF {"homework_name", "status"} \subseteq FirstRecord.keys
          THEN /\ FirstRecord.status \notin KnownStatuses
               /\ exc.etype = "UnknownHomeworkStatusError"
               /\ exc.msg = "Neizvestnyi status domashnei raboty: " \o FirstRecord.status
          ELSE exc.etype = "InvalidAPIResponseError"
    /\ ParseReturned =>
          /\ FirstRecord.type = "dict"
          /\ {"homework_name", "status"} \subseteq FirstRecord.keys
          /\ FirstRecord.status \in KnownStatuses
          /\ message = "Izmenilsya status proverki raboty \"" \o FirstRecord.homework_name
                          \o "\". " \o HOMEWORK_VERDICTS[FirstRecord.status]

\* The record {homework_name: hw2, status: weird} was refused with its code.
C8_Witness ==
    /\ ParseRaised
    /\ FirstRecord = Homework("hw2", "weird")
    /\ exc.etype = "UnknownHomeworkStatusError"
    /\ exc.msg = "Neizvestnyi status domashnei raboty: weird"

\* The verdict sentence of each known status, as lines 34-36 give it.
VerdictSentence(status) ==
    CASE status = "approved"  -> "Rabota proverena: revyueru vsyo ponravilos. Ura!"
      [] status = "reviewing" -> "Rabota vzyata na proverku revyuerom."
      [] status = "rejected"  -> "Rabota proverena: u revyuera est zamechaniya."
\* The payload {homeworks: [{homework_name: hw1, status: approved}],
\* current_date: 1000}.
PayloadHw1Approved ==
    Dict({"homeworks", "current_date"}, JList(<<Homework("hw1", "approved")>>), PyInt(1000))
\* The body has got past line 165 without being interrupted: the status
\* notification of the payload's first record has been attempted.
StatusNotified == pc \in {"advance", "sleep"} /\ outcome # "aborted" /\ sent # <<>>
                     /\ sent[1].kind = "status"

\* C9 as stated: the text returned and sent for a valid record is
\* `Status changed for submission "<homework_name>": <verdict sentence>`.
C9_AsStated ==
    /\ ParseReturned =>
          message = "Status changed for submission \"" \o FirstRecord.homework_name
                       \o "\": " \o VerdictSentence(FirstRecord.status)
    /\ StatusNotified =>
          sent[1].text = "Status changed for submission \""
                            \o http.json.homeworks.items[1].homework_name
                            \o "\": " \o VerdictSentence(http.json.homeworks.items[1].status)
    /\ (pc = "sleep" /\ outcome = "ok" /\ http.json = PayloadHw1Approved) =>
          /\ sent[1].text = "Status changed for submission \"hw1\": "
                               \o "Rabota proverena: revyueru vsyo ponravilos. Ura!"
          /\ timestamp = PyInt(1000)

\* C9, amended: the text returned and sent for a valid record is
\* `Изменился статус проверки работы "<homework_name>". <verdict sentence>`
\* with the verdict map's sentence for the status; for the payload above it is
\* `Изменился статус проверки работы "hw1". Работа проверена: ревьюеру всё
\* понравилось. Ура!`, sent once, and the cursor becomes 1000.
C9_NotificationText ==
    /\ ParseReturned =>
          message = "Izmenilsya status proverki raboty \"" \o FirstRecord.homework_name
                       \o "\". " \o VerdictSentence(FirstRecord.status)
    /\ StatusNotified =>
          /\ Len(sent) = 1
          /\ sent[1].text = "Izmenilsya status proverki raboty \""
                               \o http.json.homeworks.items[1].homework_name
                               \o "\". " \o VerdictSentence(http.json.homeworks.items[1].status)
    /\ (pc = "sleep" /\ outcome = "ok" /\ http.json = PayloadHw1Approved) =>
          /\ Len(sent) = 1
          /\ sent[1].kind = "status"
          /\ sent[1].text = "Izmenilsya status proverki raboty \"hw1\". "
                               \o "Rabota proverena: revyueru vsyo ponravilos. Ura!"
          /\ timestamp = PyInt(1000)

\* That payload has been handled: one notification delivered, cursor 1000.
C9_Witness ==
    /\ pc = "sleep"
    /\ outcome = "ok"
    /\ http.json = PayloadHw1Approved
    /\ cursor_before = PyInt(500)
    /\ timestamp = PyInt(1000)
    /\ Len(sent) = 1 /\ sent[1].delivered

\* Every completed sleep lasted 600, and while no KeyboardInterrupt has cut
\* the iteration short the completed sleeps are as many as the fetches
\* started, less the one of the iteration under way.
C10_Counts ==
    /\ \A i \in 1..Len(naps) : naps[i] = 600
    /\ (pc = "fetch") => Len(naps) = iter
    /\ (pc \in BodyPcs \ {"fetch"}) => Len(naps) = iter - 1
    /\ (pc = "sleep" /\ outcome # "aborted") => Len(naps) = iter - 1
    /\ (outcome \in {"ok", "failed"}) => pc \in {"sleep", "stopped"}

\* C10: every iteration, successful or failed, ends with one sleep of
\* RETRY_PERIOD = 600; a fetch starts only when every earlier iteration's
\* sleep has completed, so that between two consecutive fetches there is
\* exactly one completed sleep; and the interval is the same after failures.
C10_Pacing ==
    /\ RETRY_PERIOD = 600
    /\ []C10_Counts
    /\ [][/\ iter' # iter => (pc = "fetch" /\ iter' = iter + 1 /\ Len(naps) = iter)
          /\ naps' # naps =>
                /\ pc = "sleep"
                /\ naps' = Append(naps, 600)
                /\ outcome \in {"ok", "failed"} => (pc' = "fetch" /\ iter' = iter)
          /\ (pc = "sleep" /\ outcome \in {"ok", "failed"}) =>
                (naps' # naps \/ pc' = "stopped")]_vars

\* Two failed iterations with the same text, each followed by a sleep of 600,
\* and the third fetch about to start.
C10_Witness ==
    /\ pc = "fetch"
    /\ iter = 2
    /\ naps = <<600, 600>>
    /\ Len(hist) = 2
    /\ hist[1].outcome = "failed" /\ hist[2].outcome = "failed"
    /\ hist[1].diag = hist[2].diag

\* The shutdown notice of line 178.  "Программа остановлена пользователем."
ShutdownNotice == Rec("INFO", "Programma ostanovlena polzovatelem.")
\* A KeyboardInterrupt has been received inside the loop: it is held back by
\* the finally clause, or it has reached line 177.
Interrupted == pending \/ pc = "stopped"

\* What holds once main has left the loop: the notice is the last thing
\* logged, no exception is in flight and none is held back.
C11_Stopped ==
    pc = "stopped" =>
        /\ log = <<ShutdownNotice>>
        /\ exc = NoExc
        /\ ~pending
\* A step from a state in which the signal has been received: it starts no
\* fetch and no notification, and it goes to line 178 and nowhere else.
C11_Step ==
    /\ pending => (pc = "sleep" /\ pc' = "stopped")
    /\ Interrupted => (iter' = iter /\ Len(sent') <= Len(sent) /\ timestamp' = timestamp)
    /\ (pc \in BodyPcs \cup {"sleep"} /\ pc' \notin BodyPcs \cup {"sleep"}) =>
          pc' = "stopped"
    /\ (pc \in BodyPcs /\ exc'.etype = "KeyboardInterrupt") => (pending' /\ pc' = "sleep")

\* C11: once the loop has been entered, a KeyboardInterrupt always leads to a
\* clean stop: the loop is left, the shutdown notice is logged, main returns
\* with no exception in flight, and no fetch and no notification is started
\* after the signal was received.  (While the signal is held back the sleep
\* of the finally clause can run, and the only step there is goes to line 178.)
C11_Interruption ==
    /\ []C11_Stopped
    /\ [](pending => ENABLED Sleep)
    /\ [][C11_Step]_vars

\* An iteration was cut short by the signal after its fetch, the finally
\* clause slept, and main has stopped with the notice logged.
C11_Witness ==
    /\ pc = "stopped"
    /\ iter = 2
    /\ naps = <<600, 600>>
    /\ hist[Len(hist)].outcome = "aborted"
    /\ log = <<ShutdownNotice>>

\* Where main is while the loop runs, and the records of a log.
LoopPcs == BodyPcs \cup {"sleep"}
Records(l) == { l[i] : i \in 1..Len(l) }

\* A failed iteration has logged its diagnostic text at ERROR level, whether
\* or not it sent it.
C12_Logged ==
    (pc = "sleep" /\ outcome = "failed") => Rec("ERROR", message) \in Records(log)
\* An exception raised by a statement of the try block goes to the handler of
\* line 169; the handler goes to the finally clause, raising nothing; the
\* finally clause goes to the next fetch once its sleep has ended; and the
\* loop is left only by a KeyboardInterrupt.
C12_Step ==
    /\ (pc \in {"fetch", "check", "parse", "notify", "advance"} /\ exc'.raised
           /\ exc'.etype # "KeyboardInterrupt") => pc' = "handle"
    /\ (pc \in {"handle", "report"} /\ exc'.etype # "KeyboardInterrupt") =>
          /\ pc' \in {"report", "sleep"}
          /\ pc' = "sleep" => (outcome' = "failed" /\ ~exc'.raised)
    /\ (pc = "sleep" /\ ~pending /\ naps' # naps) => pc' = "fetch"
    /\ (pc \in LoopPcs /\ pc' \notin LoopPcs) =>
          /\ pc' = "stopped"
          /\ pending \/ InterruptSleep

\* C12: the loop has no terminal state other than interruption: every
\* exception of fetch, validation or translation is caught at line 169, is
\* logged in every failing iteration whether or not it is notified, and is
\* followed by the sleep and a further iteration; unless a KeyboardInterrupt
\* arrives, the loop goes on from wherever it is until it has started every
\* fetch the model allows and stands before the next.
C12_NoTerminalState ==
    /\ []C12_Logged
    /\ [][C12_Step]_vars
    /\ (pc \in LoopPcs) ~> (pc = "stopped" \/ (pc = "fetch" /\ iter = MaxIter))

\* The second iteration failed on a response that is no mapping, as the first
\* did: the text is logged and nothing was sent.
C12_Witness ==
    /\ pc = "sleep"
    /\ outcome = "failed"
    /\ iter = 2
    /\ message = "Sboi v rabote programmy: Otvet ne yavlyaetsya slovarem.."
    /\ sent = <<>>
    /\ Rec("ERROR", message) \in Records(log)

\* The list under "homeworks" of the payload of the current iteration, and
\* the translation of its first record.
PayloadList == http.json.homeworks.items
FirstTranslation == parse_status(PayloadList[1], HOMEWORK_VERDICTS)
\* The body of the current iteration has got to line 168 and past it.
Succeeded == pc = "sleep" /\ outcome = "ok"

\* C13: a successful iteration with a non-empty list has attempted exactly one
\* notification, a status notification whose text is the translation of
\* homeworks[0], whatever the later records are (they are not translated: one
\* that parse_status would refuse does not fail the iteration); a successful
\* iteration with an empty list has attempted none; in both the cursor is the
\* payload's current_date, and it is what the next fetch asks from.
C13_FirstRecordOnly ==
    /\ Succeeded =>
          /\ http.decodes /\ http.json.homeworks.type = "list"
          /\ timestamp = http.json.current_date
          /\ IF PayloadList # <<>>
             THEN /\ ~FirstTranslation.exc.raised
                  /\ Len(sent) = 1
                  /\ sent[1].kind = "status"
                  /\ sent[1].text = FirstTranslation.value
             ELSE sent = <<>>
    /\ (pc \in {"check", "handle"} /\ http # NoHttp) =>
          log[1] = Rec("INFO", "Proizvodim zapros k " \o ENDPOINT \o " s parametrami "
                               \o "{'from_date': " \o PyRepr(cursor_before) \o "}.")
    /\ pc = "fetch" => cursor_before = timestamp

\* The list held a valid record and then one with an unknown status: the
\* first was notified, the iteration succeeded and the cursor is 1000.
C13_Witness ==
    /\ Succeeded
    /\ PayloadList = <<Homework("hw1", "approved"), Homework("hw2", "weird")>>
    /\ Len(sent) = 1
    /\ sent[1].text = "Izmenilsya status proverki raboty \"hw1\". "
                         \o "Rabota proverena: revyueru vsyo ponravilos. Ura!"
    /\ timestamp = PyInt(1000)

\* The greeting has just been attempted: once, with TEXT, after the check of
\* the tokens passed and before anything else was sent, fetched or assigned.
C14_Greeted ==
    pc = "enter" =>
        /\ Len(sent) = 1
        /\ sent[1].kind = "greeting" /\ sent[1].text = TEXT
        /\ AbsentNames = <<>>
        /\ iter = 0 /\ naps = <<>>
        /\ timestamp \in { PyInt(now) : now \in StartTimes }
        /\ last_error_message = PyUnbound
\* Before the greeting nothing was sent; in the loop and after it no greeting
\* is among the attempts; the first fetch starts from the start time with
\* last_error_message None.
C14_State ==
    /\ C14_Greeted
    /\ pc \in {"check_tokens", "setup", "greet", "fatal"} => (sent = <<>> /\ iter = 0)
    /\ pc \in LoopPcs \cup {"stopped"} => OfKind(sent, "greeting") = <<>>
    /\ (pc = "fetch" /\ iter = 0) =>
          /\ timestamp \in { PyInt(now) : now \in StartTimes }
          /\ last_error_message = PyNone
    /\ (iter = 1 /\ pc \in BodyPcs \ {"fetch"}) =>
          /\ cursor_before \in { PyInt(now) : now \in StartTimes }
          /\ log[1].text = "Proizvodim zapros k " \o ENDPOINT \o " s parametrami "
                              \o "{'from_date': " \o ToString(cursor_before.val) \o "}."
\* The greeting is reached from the set-up only and left for the loop only,
\* touching neither the cursor nor last_error_message; the loop is entered
\* from the greeting only, and nothing leads back to the start-up.
C14_Step ==
    /\ (pc' = "greet") => pc = "setup"
    /\ (pc = "greet" /\ pc' # "killed") =>
          /\ pc' = "enter"
          /\ sent' = <<Attempt(TEXT, sent'[1].delivered, "greeting")>>
          /\ timestamp' = timestamp
          /\ last_error_message' = last_error_message
    /\ (pc' \in StartupPcs /\ pc' # pc) =>
          <<pc, pc'>> \in { <<"check_tokens", "setup">>, <<"setup", "greet">>,
                            <<"greet", "enter">> }
    /\ (pc' = "fetch" /\ iter' = 0) => pc = "enter"

\* C14: when the check of the tokens passes, the greeting is attempted exactly
\* once, after the check and before the first fetch, and never again; it
\* touches neither last_error_message nor the cursor; and the first fetch asks
\* from the start time.
C14_StartupOrdering ==
    /\ []C14_State
    /\ [][C14_Step]_vars

\* The greeting was attempted and not delivered, and main goes on to the loop
\* with the cursor at the start time.
C14_Witness ==
    /\ pc = "enter"
    /\ sent = <<Attempt(TEXT, FALSE, "greeting")>>
    /\ timestamp = PyInt(500)
    /\ log[Len(log)].level = "ERROR"

\* get_api_answer has raised to main, or has returned; the remote end
\* answered with a status, or requests.get raised.
FetchRaised == pc = "handle" /\ exc.by = "get_api_answer"
FetchReturned == pc = "check"
Answered == http.kind = "response"
NoAnswer == http.kind = "exception"
SuccessStatus == Answered /\ http.status >= 200 /\ http.status < 300
\* The texts of APIRequestError, each of which holds the endpoint, and the
\* text the handler makes of the error.
UnavailableText == "Endpoint - " \o ENDPOINT \o " nedostupen."
RequestFailedText ==
    "Oshibka zaprosa k " \o ENDPOINT \o " c params={'from_date': "
        \o PyRepr(cursor_before) \o "}."
TransportText == IF NoAnswer THEN RequestFailedText ELSE UnavailableText
TransportDiagnostic == "Sboi v rabote programmy: " \o TransportText \o "."
\* The iteration has failed on the fetch.
TransportFailed ==
    /\ pc = "sleep" /\ outcome = "failed"
    /\ NoAnswer \/ (Answered /\ http.status # 200)

\* C15 as stated: a status outside 2xx and a failure of the request raise
\* APIRequestError; a status inside 2xx raises nothing in get_api_answer; and
\* in the loop the failure gives one error notification holding the endpoint
\* and leaves the cursor alone.
C15_AsStated ==
    /\ (Answered /\ ~SuccessStatus) => ~FetchReturned
    /\ NoAnswer => ~FetchReturned
    /\ (FetchRaised /\ (NoAnswer \/ ~SuccessStatus)) =>
          exc = Raise("APIRequestError", TransportText, "get_api_answer")
    /\ SuccessStatus => ~FetchRaised
    /\ (pc = "sleep" /\ outcome = "failed" /\ (NoAnswer \/ (Answered /\ ~SuccessStatus))) =>
          /\ Len(sent) = 1
          /\ sent[1].kind = "error" /\ sent[1].text = TransportDiagnostic
          /\ timestamp = cursor_before

\* C15, amended: for every status other than 200 (HTTPStatus.OK), the other
\* 2xx included, get_api_answer raises APIRequestError, and so it does when
\* the request itself fails; with status 200 it raises nothing and goes on to
\* decode.  In the loop such a failure leaves the cursor unchanged and gives
\* one error notification whose text holds the endpoint, or none when that
\* text is already last_error_message.
C15_TransportError ==
    /\ (Answered /\ http.status # 200) => ~FetchReturned
    /\ NoAnswer => ~FetchReturned
    /\ FetchRaised =>
          /\ NoAnswer \/ (Answered /\ http.status # 200)
          /\ exc = Raise("APIRequestError", TransportText, "get_api_answer")
    /\ (Answered /\ http.status = 200) => ~FetchRaised
    /\ TransportFailed =>
          /\ message = TransportDiagnostic
          /\ Len(sent) = (IF lem_before = PyStr(TransportDiagnostic) THEN 0 ELSE 1)
          /\ \A i \in 1..Len(sent) :
                sent[i].kind = "error" /\ sent[i].text = TransportDiagnostic
          /\ timestamp = cursor_before
          /\ last_error_message = PyStr(TransportDiagnostic)

\* The remote end answered 503 in the first iteration: one error notification
\* naming the endpoint, the cursor still at the start time.
C15_Witness ==
    /\ TransportFailed
    /\ http.status = 503
    /\ iter = 1
    /\ Len(sent) = 1
    /\ sent[1].text = "Sboi v rabote programmy: Endpoint - "
                         \o "https://practicum.yandex.ru/api/user_api/homework_statuses/"
                         \o " nedostupen.."
    /\ timestamp = PyInt(500)

\* C16: in every state of the poll loop the cursor is an integer, whatever
\* current_date the payloads that passed check_response carried.
C16_CursorInteger ==
    pc \in LoopPcs => timestamp.type = "int"

\* The statement the KeyboardInterrupt held back by the finally clause cut
\* short, and whether that was inside an iteration that had made its fetch.
CutShortAt == exc.by
CutShortInside == pending /\ CutShortAt # "fetch"

\* C17 as stated: the signal takes effect between iterations only, so an
\* iteration that has made its fetch is never cut short.
C17_AsStated == ~CutShortInside

\* What is left of an iteration the signal cut short: whatever it had sent
\* stays sent (at most one message, none before the translation is done),
\* and the steps after the statement cut short were not made: the cursor and
\* last_error_message are those the iteration started with.
C17_CutShort ==
    pending =>
        /\ pc = "sleep" /\ outcome = "aborted"
        /\ CutShortAt \in BodyPcs
        /\ timestamp = cursor_before
        /\ last_error_message = lem_before
        /\ Len(sent) <= 1
        /\ CutShortAt \in {"fetch", "check", "parse"} => sent = <<>>
        /\ CutShortAt = "advance" =>
              \A i \in 1..Len(sent) : sent[i].kind = "status"
\* An iteration the signal does not cut short makes its steps in order, and
\* the signal cuts the statement at hand short by going to the finally clause.
C17_Step ==
    /\ (pc \in BodyPcs /\ exc'.etype = "KeyboardInterrupt") =>
          (pc' = "sleep" /\ pending' /\ exc'.by = pc /\ sent' = sent)
    /\ (pc \in BodyPcs /\ exc'.etype # "KeyboardInterrupt") =>
          <<pc, pc'>> \in { <<"fetch", "check">>, <<"fetch", "handle">>,
                            <<"check", "parse">>, <<"check", "advance">>,
                            <<"check", "handle">>, <<"parse", "notify">>,
                            <<"parse", "handle">>, <<"notify", "advance">>,
                            <<"advance", "sleep">>, <<"handle", "report">>,
                            <<"handle", "sleep">>, <<"report", "sleep">> }

\* C17, amended: the signal takes effect wherever it arrives, inside an
\* iteration too: at every statement of the body it can cut that statement
\* short, the rest of the body is then skipped (a status already notified
\* stays notified while the cursor is not advanced) and the cursor and
\* last_error_message stay as the iteration found them; only an iteration the
\* signal does not reach makes its steps to the end.
C17_Preemption ==
    /\ []C17_CutShort
    /\ []((pc \in BodyPcs /\ ~pending) => ENABLED InterruptBody)
    /\ [][C17_Step]_vars

\* The signal arrived after the status notification and before line 168: the
\* notification is out and the cursor is where it was.
C17_Witness ==
    /\ pending
    /\ CutShortAt = "advance"
    /\ Len(sent) = 1 /\ sent[1].kind = "status"
    /\ timestamp = PyInt(500)
    /\ iter = 1

\* The current iteration has failed; the error notifications it attempted.
Failed == pc = "sleep" /\ outcome = "failed"
ErrorAttempts == OfKind(sent, "error")
\* The last three iterations, the current one included, failed with one text.
SameThrice ==
    /\ TwoFailures /\ Len(hist) >= 2
    /\ Prev.diag = message
    /\ hist[Len(hist) - 1].outcome = "failed" /\ hist[Len(hist) - 1].diag = message

\* A failed iteration leaves last_error_message equal to its text, and to
\* the text of the attempt it made if it made one, delivered or not; it made
\* none if the text was last_error_message already; so two and three
\* failures in a row with one text made at most one attempt between them.
C18_State ==
    /\ Failed =>
          /\ last_error_message = PyStr(message)
          /\ \A i \in 1..Len(ErrorAttempts) :
                last_error_message = PyStr(ErrorAttempts[i].text)
          /\ lem_before = PyStr(message) => sent = <<>>
          /\ Len(ErrorAttempts) <= 1
    /\ (TwoFailures /\ Prev.diag = message) =>
          (Prev.errors + CurErrors <= 1 /\ CurErrors = 0)
    /\ SameThrice =>
          hist[Len(hist) - 1].errors + Prev.errors + CurErrors <= 1
\* The attempt of the handler records its text whatever became of the
\* delivery, and the text recorded stays until another text is attempted.
C18_Step ==
    /\ (pc = "report" /\ Len(sent') > Len(sent)) =>
          /\ sent'[Len(sent')].text = message
          /\ last_error_message' = PyStr(message)
    /\ (last_error_message' # last_error_message /\ pc # "enter") =>
          (pc = "report" /\ Len(sent') > Len(sent))

\* C18: last_error_message takes a failure's text as soon as the sending of
\* it has been attempted, delivered or not; so over consecutive failing
\* iterations with one text at most one attempt is made, and an error
\* notification that was not delivered is not attempted again while the same
\* failure lasts.
C18_AttemptRecorded ==
    /\ []C18_State
    /\ [][C18_Step]_vars

\* The error notification of the first failure was not delivered, and its
\* text is recorded all the same.
C18_Witness ==
    /\ Failed
    /\ iter = 1
    /\ Len(sent) = 1 /\ sent[1].kind = "error" /\ ~sent[1].delivered
    /\ lem_before = PyNone
    /\ last_error_message = PyStr(sent[1].text)

\* The status notifications the current iteration attempted.
StatusAttempts == OfKind(sent, "status")

\* In the loop an iteration has attempted at most one notification, a status
\* or an error notification.  With a status notification attempted the body
\* is at line 168 or past it, and if no signal cut it short it has succeeded
\* and the cursor is the payload's current_date; with an error notification
\* attempted the iteration has failed and the cursor is where it was.
C19_State ==
    pc \in LoopPcs =>
        /\ Len(sent) <= 1
        /\ Len(StatusAttempts) + Len(ErrorAttempts) = Len(sent)
        /\ StatusAttempts # <<>> =>
              /\ pc \in {"advance", "sleep"}
              /\ (pc = "sleep" /\ outcome # "aborted") =>
                    (outcome = "ok" /\ timestamp = http.json.current_date)
        /\ ErrorAttempts # <<>> =>
              /\ pc = "sleep" /\ outcome = "failed"
              /\ timestamp = cursor_before
\* Nothing fails after the status notification: from line 165 the body goes
\* to line 168 and from there to the finally clause with no exception raised,
\* unless the signal arrives.
C19_Step ==
    /\ (pc = "notify" /\ exc'.etype # "KeyboardInterrupt") =>
          (pc' = "advance" /\ ~exc'.raised /\ Len(sent') = 1)
    /\ (pc = "advance" /\ exc'.etype # "KeyboardInterrupt") =>
          (pc' = "sleep" /\ ~exc'.raised /\ outcome' = "ok" /\ sent' = sent)

\* C19: an iteration makes at most one notification attempt, a status or an
\* error notification and never both; after the status notification nothing
\* in the iteration fails, so it advances the cursor and sends no error
\* notification; an iteration that sends an error notification has not
\* advanced the cursor.
C19_OneAttempt ==
    /\ []C19_State
    /\ [][C19_Step]_vars

\* The status of the first record was notified and the payload's
\* current_date was null: the iteration succeeded all the same.
C19_Witness ==
    /\ pc = "sleep" /\ outcome = "ok"
    /\ Len(sent) = 1 /\ sent[1].kind = "status" /\ sent[1].delivered
    /\ http.json.current_date = PyNone
    /\ timestamp = PyNone

\* Every way out of the iteration body leads into the finally clause; a
\* signal that cuts the body short changes neither the cursor nor
\* last_error_message and is held back; while it is held back the sleep of
\* the finally clause runs its 600 seconds (unless a second signal cuts the
\* sleep itself short), and only then is line 177 reached, the cursor and
\* last_error_message still unchanged.
C20_Step ==
    /\ (pc \in BodyPcs /\ pc' \notin BodyPcs) => pc' = "sleep"
    /\ (pc \in BodyPcs /\ exc'.etype = "KeyboardInterrupt") =>
          /\ pending' /\ pc' = "sleep"
          /\ naps' = naps
          /\ timestamp' = timestamp
          /\ last_error_message' = last_error_message
    /\ pending =>
          /\ pc' = "stopped"
          /\ naps' = Append(naps, RETRY_PERIOD) \/ InterruptSleep
          /\ timestamp' = timestamp
          /\ last_error_message' = last_error_message
    /\ (pc' = "stopped" /\ pc # "stopped") => pc = "sleep"

\* C20: the sleep of the finally clause runs on every exit from the iteration
\* body, also when a KeyboardInterrupt cuts the body short during the fetch,
\* the validation, the translation or a notification: the sleep is started in
\* full before the interrupt reaches line 177, and the cursor and
\* last_error_message keep the values they had when the signal arrived.
C20_SleepOnInterrupt ==
    /\ [](pending => (pc = "sleep" /\ exc.etype = "KeyboardInterrupt" /\ ENABLED Sleep))
    /\ [][C20_Step]_vars

\* The signal cut the first iteration short after its fetch; the sleep ran
\* in full and main has stopped, the cursor still at the start time.
C20_Witness ==
    /\ pc = "stopped"
    /\ iter = 1
    /\ naps = <<600>>
    /\ hist = <<[outcome |-> "aborted", diag |-> "", errors |-> 0, lem |-> PyNone]>>
    /\ timestamp = PyInt(500)
    /\ last_error_message = PyNone
====
